---- MODULE Spec2Model ----
(***************************************************************************)
(* Model of nutrigeneengine's RiskScorer (src/src/nutrigeneengine/         *)
(* risk_scorer.py).                                                        *)
(*                                                                         *)
(* Representation.                                                         *)
(*  - A JSON object (Python dict) is a function whose DOMAIN is the set of *)
(*    keys that are present; dict.get(k, d) is Get(d, k, default).         *)
(*  - A Python str that the code measures or indexes (a genotype value) is *)
(*    a sequence of one-character strings: "AG" is <<"A", "G">>.           *)
(*  - An Optional value is a sequence of length 0 (None) or 1.             *)
(*  - Weights, points and scores are integers (one unit = 1.0).            *)
(*  - The unrounded percentage is an exact rational [num, den], den > 0;   *)
(*    round(x, n) yields the integer number of 10^-n units, so the result  *)
(*    field percentage counts hundredths (10000 is 100.00) and             *)
(*    normalized_score counts tenths.                                      *)
(*  - A detail f-string is the record of the values it interpolates.       *)
(***************************************************************************)
EXTENDS Integers, Sequences, FiniteSets, TLC

VARIABLES
    schema,         \* self.schema
    thresholds,     \* self.thresholds
    language,       \* self.language
    genotype_data,  \* the caller's genotype map (argument of calculate_score)
    results,        \* the mapping returned by the last calculate_score call
    scored,         \* TRUE once calculate_score has returned
    call,           \* the last call made on the scorer: [op, arg], with ret for a direct
                    \* helper call and follows (the calculate_score call it directly
                    \* follows, with its return value) for calculate_score;
                    \* [op, arg, ret] for a call of generate_reports_for_file
    batch           \* the run of scripts/generate_full_report.py main(): the input
                    \* files, the position of its loop, the files whose reports
                    \* were written, and how far the run got; NoBatch elsewhere

vars == <<schema, thresholds, language, genotype_data, results, scored, call, batch>>

(***************************************************************************)
(* Bounds of the model.                                                    *)
(***************************************************************************)
MaxWeight == 2        \* weights range over 1..MaxWeight
MaxPoints == 3        \* genotype_points values range over 0..MaxPoints
MaxLen    == 3        \* raw strings given to _get_allele_count have length 0..MaxLen
MaxPercent == 100     \* percentages given to _classify_risk range over 0..MaxPercent in halves
MaxSubtraits == 2     \* a trait node of a hierarchical schema has 0..MaxSubtraits subtraits
MaxFiles  == 3        \* a batch run has 1..MaxFiles input files

(***************************************************************************)
(* Python built-ins used by the code.                                      *)
(***************************************************************************)
\* dict.get(key, default)
Get(d, k, default) == IF k \in DOMAIN d THEN d[k] ELSE default

\* dict.get(key) as an Optional: <<>> is None
GetOpt(d, k) == IF k \in DOMAIN d THEN <<d[k]>> ELSE <<>>

\* str(n) for the allele counts 0, 1, 2
Str(n) == CASE n = 0 -> "0" [] n = 1 -> "1" [] n = 2 -> "2"

\* x.upper() for the direction strings of the model
Upper(s) ==
    CASE s = "risk_up"    -> "RISK_UP"
      [] s = "risk_down"  -> "RISK_DOWN"
      [] s = "contextual" -> "CONTEXTUAL"
      [] s = "protective" -> "PROTECTIVE"
      [] OTHER            -> s

\* floor(a / b) for b > 0 (Integers' \div already rounds toward minus infinity)
Floor(a, b) == a \div b

\* round(num / den, ndigits) in units of 10^-ndigits, ties to even
Pow10(n) == IF n = 1 THEN 10 ELSE 100

\* (mutation of Round: the digits after ndigits are cut off)
Round_truncating(p, ndigits) == Floor(p.num * Pow10(ndigits), p.den)

Round(p, ndigits) ==
    LET n == p.num * Pow10(ndigits)
        q == Floor(n, p.den)
        r == n - q * p.den
    IN  IF 2 * r < p.den THEN q
        ELSE IF 2 * r > p.den THEN q + 1
        ELSE IF q % 2 = 0 THEN q ELSE q + 1

\* comparison of a rational [num, den] with an integer
RatLess(p, t) == p.num < t * p.den

(***************************************************************************)
(* RiskScorer.RISK_LABELS and _classify_risk                               *)
(***************************************************************************)
\* (the Turkish labels are written without diacritics: DUSUK, YUKSEK)
RISK_LABELS ==
    [en |-> [low |-> "LOW", medium |-> "MEDIUM", high |-> "HIGH"],
     tr |-> [low |-> "DUSUK", medium |-> "ORTA", high |-> "YUKSEK"]]

\* (mutation of risk_level: the lower edge compared with <=)
risk_level_closed_low(percentage, th) ==
    IF percentage.num <= th[1] * percentage.den THEN "low"
    ELSE IF RatLess(percentage, th[2]) THEN "medium"
    ELSE "high"

risk_level(percentage, th) ==
    IF RatLess(percentage, th[1]) THEN "low"
    ELSE IF RatLess(percentage, th[2]) THEN "medium"
    ELSE "high"

\* (mutation of classify_risk: no fall back to the English labels)
classify_risk_no_fallback(percentage, th, lang) ==
    Get(Get(RISK_LABELS, lang, <<>>), risk_level(percentage, th), "LOW")

classify_risk(percentage, th, lang) ==
    Get(Get(RISK_LABELS, lang, RISK_LABELS["en"]), risk_level(percentage, th), "LOW")

(***************************************************************************)
(* RiskScorer._get_allele_count                                            *)
(***************************************************************************)
\* (mutation of get_allele_count: only strings shorter than two are invalid)
get_allele_count_prefix(diploid_genotype) ==
    IF Len(diploid_genotype) < 2 THEN 0
    ELSE IF diploid_genotype[1] = diploid_genotype[2] THEN 2
    ELSE 1

get_allele_count(diploid_genotype) ==
    IF Len(diploid_genotype) # 2 THEN 0
    ELSE IF diploid_genotype[1] = diploid_genotype[2] THEN 2
    ELSE 1

(***************************************************************************)
(* RiskScorer._calculate_trait_score, one piece per step of the loop body  *)
(***************************************************************************)
\* effect = variant.get("effect", {}); direction = effect.get("direction", "risk_up")
variant_direction(variant) ==
    Get(Get(variant, "effect", <<>>), "direction", "risk_up")

\* (mutation of is_neutral: the neutral branch is never taken)
is_neutral_never(direction) == FALSE

\* if direction == "neutral": ... continue
is_neutral(direction) == direction = "neutral"

\* 'scoring' in variant and 'genotype_points' in variant['scoring']
has_point_map(variant) ==
    /\ "scoring" \in DOMAIN variant
    /\ "genotype_points" \in DOMAIN variant["scoring"]

\* weight = variant.get("weight", 1.0)
legacy_weight(variant) == Get(variant, "weight", 1)

\* (mutation of point_map_weight: the top-level weight is kept)
point_map_weight_top_level(variant) == Get(variant, "weight", 1)

\* weight = variant['scoring'].get('default_weight', 1.0)
point_map_weight(variant) == Get(variant["scoring"], "default_weight", 1)

\* diploid = genotype_data.get(rsid, None), rsid = variant.get("rsid")
\* (mutation of lookup_diploid: an rsid without entry reads the entry of rs1)
lookup_diploid_borrowing(variant, genotype) ==
    IF "rsid" \in DOMAIN variant /\ variant["rsid"] \in DOMAIN genotype
    THEN <<genotype[variant["rsid"]]>>
    ELSE GetOpt(genotype, "rs1")

lookup_diploid(variant, genotype) ==
    IF "rsid" \in DOMAIN variant THEN GetOpt(genotype, variant["rsid"]) ELSE <<>>

\* (mutation of is_missing: only an absent rsid is missing)
is_missing_absent_only(diploid) == diploid = <<>>

\* (mutation of is_missing: the length test is dropped)
is_missing_no_length_test(diploid) ==
    \/ diploid = <<>>
    \/ Len(diploid[1]) = 0

\* not diploid or len(diploid) != 2
is_missing(diploid) ==
    \/ diploid = <<>>
    \/ Len(diploid[1]) = 0
    \/ Len(diploid[1]) # 2

\* points = point_map.get(str(allele_count), 0)
lookup_points(point_map, allele_count) == Get(point_map, Str(allele_count), 0)

\* (mutation of point_map_trait_score: risk_down inverts any points)
point_map_trait_score_unclamped(direction, points, weight) ==
    IF direction \in {"risk_up", "contextual"} THEN points * weight
    ELSE IF direction = "risk_down" THEN (2 - points) * weight
    ELSE 0

\* direction-specific scoring of point-map mode
point_map_trait_score(direction, points, weight) ==
    IF direction = "risk_up" THEN points * weight
    ELSE IF direction = "risk_down"
         THEN (IF points \in {0, 1, 2} THEN 2 - points ELSE 0) * weight
    ELSE IF direction = "contextual" THEN points * weight
    ELSE 0

\* (mutation of legacy_trait_score: risk_down is not inverted)
legacy_trait_score_not_inverted(direction, allele_count, weight) ==
    IF direction \in {"risk_up", "risk_down", "contextual"} THEN allele_count * weight
    ELSE 0

\* (mutation of legacy_trait_score: any other direction scores as risk_up)
legacy_trait_score_default_risk_up(direction, allele_count, weight) ==
    IF direction = "risk_down" THEN (2 - allele_count) * weight
    ELSE allele_count * weight

\* direction-specific scoring of legacy mode
legacy_trait_score(direction, allele_count, weight) ==
    IF direction = "risk_up" THEN allele_count * weight
    ELSE IF direction = "risk_down" THEN (2 - allele_count) * weight
    ELSE IF direction = "contextual" THEN allele_count * weight
    ELSE 0

\* (mutation of max_contribution: the weight is not doubled)
max_contribution_single(weight) == weight

\* max_possible_with_data += 2 * weight
max_contribution(weight) == 2 * weight

\* rsid as printed by the f-strings (None when the key is absent)
rsid_of(variant) == GetOpt(variant, "rsid")

\* One pass of the loop body: what the variant adds to score, to
\* max_possible_with_data and to variant_details.
score_variant(variant, genotype) ==
    LET direction == variant_direction(variant)
        diploid   == lookup_diploid(variant, genotype)
    IN  IF is_neutral(direction)
        THEN [score |-> 0, max |-> 0,
              details |-> <<[rsid |-> rsid_of(variant),
                             text |-> "Neutral (phenotypic only, not scored)"]>>]
        ELSE IF has_point_map(variant)
        THEN IF is_missing(diploid)
             THEN [score |-> 0, max |-> 0,
                   details |-> <<[rsid |-> rsid_of(variant), text |-> "Missing"]>>]
             ELSE LET weight       == point_map_weight(variant)
                      allele_count == get_allele_count(diploid[1])
                      points       == lookup_points(variant["scoring"]["genotype_points"],
                                                    allele_count)
                      trait_score  == point_map_trait_score(direction, points, weight)
                  IN  [score |-> trait_score, max |-> max_contribution(weight),
                       details |-> <<[rsid |-> rsid_of(variant), diploid |-> diploid[1],
                                      allele_count |-> allele_count, points |-> points,
                                      direction_label |-> Upper(direction),
                                      weight |-> weight, trait_score |-> trait_score]>>]
        ELSE IF is_missing(diploid)
             THEN [score |-> 0, max |-> 0, details |-> <<>>]
             ELSE LET weight       == legacy_weight(variant)
                      allele_count == get_allele_count(diploid[1])
                      trait_score  == legacy_trait_score(direction, allele_count, weight)
                  IN  [score |-> trait_score, max |-> max_contribution(weight),
                       details |-> <<[rsid |-> rsid_of(variant), diploid |-> diploid[1],
                                      allele_count |-> allele_count,
                                      direction_label |-> Upper(direction),
                                      weight |-> weight, trait_score |-> trait_score]>>]

\* the for loop over variants: running score, max_possible_with_data, variant_details
RECURSIVE sum_variants(_, _)
sum_variants(variants, genotype) ==
    IF variants = <<>> THEN [score |-> 0, max |-> 0, details |-> <<>>]
    ELSE LET n    == Len(variants)
             acc  == sum_variants(SubSeq(variants, 1, n - 1), genotype)
             this == score_variant(variants[n], genotype)
         IN  [score   |-> acc.score + this.score,
              max     |-> acc.max + this.max,
              details |-> acc.details \o this.details]

\* "smart normalization": the unrounded percentage as an exact rational
percentage_of(score, max_possible_with_data) ==
    IF max_possible_with_data > 0
    THEN [num |-> score * 100, den |-> max_possible_with_data]
    ELSE [num |-> 0, den |-> 1]

calculate_trait_score(trait_name, trait_info, genotype, th, lang) ==
    LET acc        == sum_variants(Get(trait_info, "variants", <<>>), genotype)
        percentage == percentage_of(acc.score, acc.max)
    IN  [name               |-> trait_name,
         normalized_score   |-> Round(percentage, 1),
         score              |-> acc.score,
         max_possible_score |-> acc.max,
         percentage         |-> Round(percentage, 2),
         classification     |-> classify_risk(percentage, th, lang),
         domain             |-> Get(trait_info, "domain", "Unknown"),
         details            |-> acc.details]

(***************************************************************************)
(* RiskScorer._process_group and RiskScorer.calculate_score                *)
(***************************************************************************)
\* result['group_name'] = group_name
with_group(result, group_name) == ("group_name" :> group_name) @@ result

\* results[name] = result for each result of seq in turn (later entries win)
RECURSIVE store_all(_, _)
store_all(res, seq) ==
    IF seq = <<>> THEN res
    ELSE store_all((seq[1]["name"] :> seq[1]) @@ res, Tail(seq))

\* (mutation of node_results: variants are looked for before subtraits)
node_results_variants_first(trait, group_name, genotype, th, lang) ==
    IF "variants" \in DOMAIN trait
    THEN <<with_group(calculate_trait_score(trait["name"], trait, genotype, th, lang),
                      group_name)>>
    ELSE IF "subtraits" \in DOMAIN trait
    THEN [i \in 1..Len(trait["subtraits"]) |->
            with_group(calculate_trait_score(trait["subtraits"][i]["name"],
                                             trait["subtraits"][i], genotype, th, lang),
                       group_name)]
    ELSE <<>>

\* the results one trait node of a group emits, in order
node_results(trait, group_name, genotype, th, lang) ==
    IF "subtraits" \in DOMAIN trait
    THEN [i \in 1..Len(trait["subtraits"]) |->
            with_group(calculate_trait_score(trait["subtraits"][i]["name"],
                                             trait["subtraits"][i], genotype, th, lang),
                       group_name)]
    ELSE IF "variants" \in DOMAIN trait
    THEN <<with_group(calculate_trait_score(trait["name"], trait, genotype, th, lang),
                      group_name)>>
    ELSE <<>>

RECURSIVE process_traits(_, _, _, _, _, _)
process_traits(res, traits, group_name, genotype, th, lang) ==
    IF traits = <<>> THEN res
    ELSE process_traits(store_all(res, node_results(traits[1], group_name, genotype, th, lang)),
                        Tail(traits), group_name, genotype, th, lang)

process_group(group_data, genotype, th, lang) ==
    process_traits(<<>>, Get(group_data, "traits", <<>>),
                   Get(group_data, "name", "Unknown"), genotype, th, lang)

\* (mutation of Update: an entry that is already there is kept)
Update_keeping_first(res, other) == res @@ other

\* results.update(other)
Update(res, other) == other @@ res

RECURSIVE process_groups(_, _, _, _, _)
process_groups(res, groups, genotype, th, lang) ==
    IF groups = <<>> THEN res
    ELSE process_groups(Update(res, process_group(groups[1], genotype, th, lang)),
                        Tail(groups), genotype, th, lang)

\* (mutation of calculate_score: flat results carry a group_name too)
calculate_score_flat_grouped(sch, genotype, th, lang) ==
    IF "taxonomy" \in DOMAIN sch
    THEN process_groups(<<>>, Get(Get(sch, "taxonomy", <<>>), "top_groups", <<>>),
                        genotype, th, lang)
    ELSE LET traits == Get(sch, "traits", <<>>)
         IN  [trait_name \in DOMAIN traits |->
                with_group(calculate_trait_score(trait_name, traits[trait_name],
                                                 genotype, th, lang), "Unknown")]

calculate_score(sch, genotype, th, lang) ==
    IF "taxonomy" \in DOMAIN sch
    THEN process_groups(<<>>, Get(Get(sch, "taxonomy", <<>>), "top_groups", <<>>),
                        genotype, th, lang)
    ELSE LET traits == Get(sch, "traits", <<>>)
         IN  [trait_name \in DOMAIN traits |->
                calculate_trait_score(trait_name, traits[trait_name], genotype, th, lang)]

(***************************************************************************)
(* SchemaHandler (schema_handler.py): validate_schema and get_hierarchy of *)
(* a handler that holds the same schema as the scorer.                     *)
(***************************************************************************)
\* all(key in variant for key in ["id", "weight"])
has_required_variant_keys(variant) ==
    \A key \in {"id", "weight"} : key \in DOMAIN variant

\* (mutation of validate_schema: a trait without variants is skipped)
validate_schema_variants_optional(sch) ==
    IF "traits" \notin DOMAIN sch THEN FALSE
    ELSE ~ \E trait_name \in DOMAIN sch["traits"] :
              LET trait_info == sch["traits"][trait_name]
              IN  /\ "variants" \in DOMAIN trait_info
                  /\ \E i \in 1..Len(trait_info["variants"]) :
                        ~has_required_variant_keys(trait_info["variants"][i])

\* the loops return False at the first trait without variants or variant
\* without a required key
validate_schema(sch) ==
    IF "traits" \notin DOMAIN sch THEN FALSE
    ELSE ~ \E trait_name \in DOMAIN sch["traits"] :
              LET trait_info == sch["traits"][trait_name]
              IN  \/ "variants" \notin DOMAIN trait_info
                  \/ \E i \in 1..Len(trait_info["variants"]) :
                        ~has_required_variant_keys(trait_info["variants"][i])

\* the names one trait node appends to hierarchy[group_name]
hierarchy_names(trait) ==
    IF "subtraits" \in DOMAIN trait
    THEN [i \in 1..Len(trait["subtraits"]) |-> GetOpt(trait["subtraits"][i], "name")]
    ELSE <<GetOpt(trait, "name")>>

RECURSIVE hierarchy_of_traits(_)
hierarchy_of_traits(traits) ==
    IF traits = <<>> THEN <<>>
    ELSE hierarchy_names(Head(traits)) \o hierarchy_of_traits(Tail(traits))

\* hierarchy[group_name] = [] and the appends of one group; the key is
\* group.get("name"), an Optional
RECURSIVE hierarchy_of_groups(_, _)
hierarchy_of_groups(hierarchy, groups) ==
    IF groups = <<>> THEN hierarchy
    ELSE hierarchy_of_groups(
            (GetOpt(Head(groups), "name") :> hierarchy_of_traits(Get(Head(groups), "traits", <<>>)))
               @@ hierarchy,
            Tail(groups))

get_hierarchy(sch) ==
    hierarchy_of_groups(<<>>, Get(Get(sch, "taxonomy", <<>>), "top_groups", <<>>))

(***************************************************************************)
(* Consumers of a result mapping: utils.get_high_risk_traits and the       *)
(* summary of scripts/generate_full_report.create_comprehensive_json.      *)
(* The percentage field counts hundredths, so 66.0 is 6600.                *)
(***************************************************************************)
get_high_risk_traits(res, threshold) ==
    LET high == {trait \in DOMAIN res : Get(res[trait], "percentage", 0) >= threshold * 100}
    IN  [trait \in high |-> res[trait]]

\* results without the informational traits
filtered_results(res) ==
    [k \in DOMAIN res \ {"Informational", "Bilgilendirici"} |-> res[k]]

\* sum(1 for r in filtered_results.values() if ...)
low_risk_count(filtered) ==
    Cardinality({k \in DOMAIN filtered : Get(filtered[k], "percentage", 0) <= 33 * 100})

medium_risk_count(filtered) ==
    Cardinality({k \in DOMAIN filtered : /\ 33 * 100 < Get(filtered[k], "percentage", 0)
                                         /\ Get(filtered[k], "percentage", 0) <= 66 * 100})

high_risk_count(filtered) ==
    Cardinality({k \in DOMAIN filtered : Get(filtered[k], "percentage", 0) > 66 * 100})

\* one entry of report['risk_categories'][group]['traits'] (the variant
\* details copied from the schema are left out)
trait_entry(trait_name, trait_result) ==
    [name           |-> trait_name,
     percentage     |-> Get(trait_result, "percentage", 0),
     classification |-> Get(trait_result, "classification", "UNKNOWN"),
     group_name     |-> Get(trait_result, "group_name", "Unknown")]

\* the report: summary and, per group, the set of its trait entries (their
\* order, by descending percentage, is not represented)
create_comprehensive_json(res, lang) ==
    LET filtered == filtered_results(res)
        groups   == {Get(filtered[k], "group_name", "Unknown") : k \in DOMAIN filtered}
    IN  [metadata |-> [language |-> lang],
         summary  |-> [total_traits      |-> Cardinality(DOMAIN filtered),
                       low_risk_count    |-> low_risk_count(filtered),
                       medium_risk_count |-> medium_risk_count(filtered),
                       high_risk_count   |-> high_risk_count(filtered)],
         risk_categories |->
             [g \in groups |->
                 {trait_entry(k, filtered[k]) :
                     k \in {t \in DOMAIN filtered : Get(filtered[t], "group_name", "Unknown") = g}}]]

(***************************************************************************)
(* Inputs: schemas, genotype maps, thresholds, languages                   *)
(***************************************************************************)
Rsids      == {"rs1", "rs2"}
Directions == {"risk_up", "risk_down", "contextual", "neutral", "protective"}
Weights    == 1..MaxWeight
PointValues == 0..MaxPoints
Languages  == {"en", "tr", "de"}

\* raw genotype values: "", "A", "AA", "AG", and the zygosity tags "wt", "het", "hom"
Empty == <<>>
A_    == <<"A">>
AA    == <<"A", "A">>
AG    == <<"A", "G">>
GA    == <<"G", "A">>
GG    == <<"G", "G">>
wt    == <<"w", "t">>
het   == <<"h", "e", "t">>
hom   == <<"h", "o", "m">>
GenotypeValues == {Empty, A_, AA, AG, wt, het, hom}

\* every map from a subset of the rsids to raw values
GenotypeMaps == UNION {[keys -> GenotypeValues] : keys \in SUBSET Rsids}

\* an optional key of a JSON object: absent, or present with one of the values
Absent == <<>>
Field(key, values) == {key :> v : v \in values}
Optional(key, values) == {Absent} \cup Field(key, values)

\* genotype_points maps: keys among "0", "1", "2", values in PointValues
PointMaps ==
    {("0" :> 0) @@ ("1" :> 1) @@ ("2" :> p) : p \in PointValues}
    \cup {("0" :> 0) @@ ("1" :> p) @@ ("2" :> 2) : p \in PointValues}
    \cup {("0" :> 0) @@ ("2" :> 2), Absent}

EffectValues ==
    Field("direction", Directions) \cup {"notes" :> "n"}

ScoringValues ==
    {"default_weight" :> MaxWeight}
    \cup {pm @@ dw : pm \in Field("genotype_points", PointMaps),
                     dw \in Optional("default_weight", Weights)}

\* every variant of the model
AllVariants ==
    {r @@ w @@ e @@ sc : r \in Optional("rsid", {"rs1"}),
                         w \in Optional("weight", Weights),
                         e \in Optional("effect", EffectValues),
                         sc \in Optional("scoring", ScoringValues)}

\* the variants that occur in traits of two variants
PairVariants ==
    {r @@ w @@ e @@ sc : r \in Field("rsid", Rsids),
                         w \in Optional("weight", {MaxWeight}),
                         e \in Optional("effect", Field("direction", Directions)),
                         sc \in Optional("scoring",
                                 {("genotype_points" :> (("0" :> 0) @@ ("1" :> 1) @@ ("2" :> MaxPoints)))})}

VariantLists ==
    {<<>>} \cup {<<v>> : v \in AllVariants}
           \cup {<<v, w>> : v \in PairVariants, w \in PairVariants}

\* trait definitions: with or without the variants and domain keys
TraitDefs ==
    {Absent, "domain" :> "Nutrition"}
    \cup {("variants" :> vs) @@ d : vs \in VariantLists,
                                    d \in {"domain" :> "Nutrition"}}

DefaultThresholds == <<33, 66>>

(***************************************************************************)
(* Operations of a RiskScorer                                              *)
(***************************************************************************)
NoCall == [op |-> "none"]

\* no run of the report script
NoBatch == [status |-> "none"]

\* RiskScorer.__init__(schema, thresholds, language); <<>> is None or []
Construct(sch, th, lang) ==
    /\ schema = sch
    /\ thresholds = (IF th = <<>> THEN DefaultThresholds ELSE th)
    /\ language = lang
    /\ results = <<>>
    /\ scored = FALSE
    /\ call = NoCall

\* what a calculate_score call directly follows: a calculate_score call with
\* the mapping it returned, or the caller's change of that mapping
Preceding ==
    IF call.op \in {"calculate_score", "modify_result"}
    THEN [op |-> call.op, arg |-> call.arg, ret |-> results]
    ELSE NoCall

\* (mutation of CalculateScore: the mapping returned last is kept and
\* returned again for the same genotype map)
CalculateScore_caching(genotype) ==
    /\ genotype_data' = genotype
    /\ results' = (IF scored /\ genotype = genotype_data THEN results
                   ELSE calculate_score(schema, genotype, thresholds, language))
    /\ scored' = TRUE
    /\ call' = [op |-> "calculate_score", arg |-> genotype, follows |-> Preceding]
    /\ UNCHANGED <<schema, thresholds, language, batch>>

\* (mutation of CalculateScore: the scores of the previous call are added in)
CalculateScore_accumulating(genotype) ==
    /\ genotype_data' = genotype
    /\ results' = LET new == calculate_score(schema, genotype, thresholds, language)
                  IN  [n \in DOMAIN new |->
                         IF n \in DOMAIN results
                         THEN [new[n] EXCEPT !["score"] = @ + results[n]["score"]]
                         ELSE new[n]]
    /\ scored' = TRUE
    /\ call' = [op |-> "calculate_score", arg |-> genotype,
                follows |-> Preceding]
    /\ UNCHANGED <<schema, thresholds, language, batch>>

CalculateScore(genotype) ==
    /\ genotype_data' = genotype
    /\ results' = calculate_score(schema, genotype, thresholds, language)
    /\ scored' = TRUE
    /\ call' = [op |-> "calculate_score", arg |-> genotype,
                follows |-> Preceding]
    /\ UNCHANGED <<schema, thresholds, language, batch>>

\* the caller changes the mapping it was returned: it deletes the entry of
\* trait_name
ModifyResult(trait_name) ==
    /\ trait_name \in DOMAIN results
    /\ results' = [k \in DOMAIN results \ {trait_name} |-> results[k]]
    /\ call' = [op |-> "modify_result", arg |-> trait_name]
    /\ UNCHANGED <<schema, thresholds, language, genotype_data, scored, batch>>

\* (mutation of SetThresholds: the results already returned are classified anew)
SetThresholds_reclassifying(low_threshold, high_threshold) ==
    /\ thresholds' = <<low_threshold, high_threshold>>
    /\ results' = (IF scored
                   THEN calculate_score(schema, genotype_data,
                                        <<low_threshold, high_threshold>>, language)
                   ELSE results)
    /\ call' = [op |-> "set_thresholds", arg |-> <<low_threshold, high_threshold>>]
    /\ UNCHANGED <<schema, language, genotype_data, scored, batch>>

SetThresholds(low_threshold, high_threshold) ==
    /\ thresholds' = <<low_threshold, high_threshold>>
    /\ call' = [op |-> "set_thresholds", arg |-> <<low_threshold, high_threshold>>]
    /\ UNCHANGED <<schema, language, genotype_data, results, scored, batch>>

SetLanguage(lang) ==
    /\ language' = (IF lang \in DOMAIN RISK_LABELS THEN lang ELSE language)
    /\ call' = [op |-> "set_language", arg |-> lang]
    /\ UNCHANGED <<schema, thresholds, genotype_data, results, scored, batch>>

\* a direct call of _classify_risk(percentage)
ClassifyRisk(percentage) ==
    /\ call' = [op |-> "classify_risk", arg |-> percentage,
                ret |-> classify_risk(percentage, thresholds, language)]
    /\ UNCHANGED <<schema, thresholds, language, genotype_data, results, scored, batch>>

\* a direct call of _get_allele_count(diploid_genotype)
GetAlleleCount(diploid_genotype) ==
    /\ call' = [op |-> "get_allele_count", arg |-> diploid_genotype,
                ret |-> get_allele_count(diploid_genotype)]
    /\ UNCHANGED <<schema, thresholds, language, genotype_data, results, scored, batch>>

\* SchemaHandler(schema).validate_schema()
ValidateSchema ==
    /\ call' = [op |-> "validate_schema", arg |-> schema, ret |-> validate_schema(schema)]
    /\ UNCHANGED <<schema, thresholds, language, genotype_data, results, scored, batch>>

\* SchemaHandler(schema).get_hierarchy()
GetHierarchy ==
    /\ call' = [op |-> "get_hierarchy", arg |-> schema, ret |-> get_hierarchy(schema)]
    /\ UNCHANGED <<schema, thresholds, language, genotype_data, results, scored, batch>>

\* get_high_risk_traits(results) with the default threshold 66.0
GetHighRiskTraits ==
    /\ call' = [op |-> "get_high_risk_traits", arg |-> results,
                ret |-> get_high_risk_traits(results, 66)]
    /\ UNCHANGED <<schema, thresholds, language, genotype_data, results, scored, batch>>

\* create_comprehensive_json(results, schema, language)
CreateComprehensiveJson ==
    /\ call' = [op |-> "create_comprehensive_json", arg |-> results,
                ret |-> create_comprehensive_json(results, language)]
    /\ UNCHANGED <<schema, thresholds, language, genotype_data, results, scored, batch>>

(***************************************************************************)
(* scripts/generate_full_report.py: main() and generate_reports_for_file.  *)
(* An input file is [kind], with its genotypes when they can be read:      *)
(*   ok            a JSON object with a genotypes mapping of strings       *)
(*   unscorable    genotypes is not a mapping of strings, scoring raises   *)
(*   missing       the file is gone when it is opened                      *)
(*   no_genotypes  a JSON object without the genotypes key                 *)
(*   unparsable    not JSON                                                *)
(*   unreadable    open() is refused                                       *)
(***************************************************************************)
\* the exception raised by open / json.load / user_data['genotypes']
load_exception(input_file) ==
    CASE input_file.kind = "missing"      -> "FileNotFoundError"
      [] input_file.kind = "no_genotypes" -> "KeyError"
      [] input_file.kind = "unparsable"   -> "JSONDecodeError"
      [] input_file.kind = "unreadable"   -> "PermissionError"
      [] OTHER                            -> "None"

\* except (FileNotFoundError, KeyError)
caught_on_load == {"FileNotFoundError", "KeyError"}

\* what generate_reports_for_file(input_file) does: it returns True or
\* False, or an exception leaves it
generate_reports_outcome(schema_loads, input_file) ==
    IF ~schema_loads THEN "False"
    ELSE IF load_exception(input_file) \in caught_on_load THEN "False"
    ELSE IF load_exception(input_file) # "None" THEN "raised"
    ELSE IF input_file.kind = "unscorable" THEN "False"
    ELSE "True"

\* One pass of the loop of main(): generate_reports_for_file(input_file) for
\* the next input file.  An exception that leaves the function leaves main()
\* too: the loop has no handler.
GenerateReportsForFile ==
    /\ batch.status = "running"
    /\ batch.next <= Len(batch.files)
    /\ LET input_file == batch.files[batch.next]
           outcome    == generate_reports_outcome(batch.schema_loads, input_file)
       IN  /\ IF outcome = "True"
              THEN /\ thresholds' = DefaultThresholds
                   /\ language' = "en"
                   /\ genotype_data' = input_file.genotypes
                   /\ results' = calculate_score(schema, input_file.genotypes,
                                                 DefaultThresholds, "en")
                   /\ scored' = TRUE
              ELSE UNCHANGED <<thresholds, language, genotype_data, results, scored>>
           /\ call' = [op |-> "generate_reports_for_file", arg |-> batch.next, ret |-> outcome]
           /\ batch' = [batch EXCEPT
                          !.next    = @ + 1,
                          !.called  = @ \cup {batch.next},
                          !.written = IF outcome = "True" THEN @ \cup {batch.next} ELSE @,
                          !.status  = IF outcome = "raised" THEN "raised"
                                      ELSE IF batch.next = Len(batch.files) THEN "returned"
                                      ELSE "running"]
    /\ UNCHANGED schema

(***************************************************************************)
(* SpecTrait: one flat schema of one trait, scored once against the        *)
(* caller's genotype map under the default thresholds.                     *)
(***************************************************************************)
InitTrait ==
    /\ \E td \in TraitDefs : Construct("traits" :> ("T1" :> td), <<>>, "en")
    /\ genotype_data \in GenotypeMaps
    /\ batch = NoBatch

NextTrait == ~scored /\ CalculateScore(genotype_data)

SpecTrait == InitTrait /\ [][NextTrait]_vars

(***************************************************************************)
(* SpecClassify: a scorer with any thresholds and language; _classify_risk *)
(* is called directly with any percentage.                                 *)
(***************************************************************************)
ThresholdValues == {25, 33, 66, 75}
ThresholdArgs   == {<<>>} \cup (ThresholdValues \X ThresholdValues)
Percentages     == {[num |-> k, den |-> 2] : k \in 0..(2 * MaxPercent)}
EmptySchema     == "traits" :> <<>>

InitClassify ==
    /\ \E th \in ThresholdArgs, lang \in Languages : Construct(EmptySchema, th, lang)
    /\ genotype_data = <<>>
    /\ batch = NoBatch

NextClassify == \E p \in Percentages : ClassifyRisk(p)

SpecClassify == InitClassify /\ [][NextClassify]_vars

(***************************************************************************)
(* SpecDecode: _get_allele_count is called directly with any short string. *)
(***************************************************************************)
Alphabet == {"A", "G", "w", "t", "h", "e"}
Strings  == UNION {[1..n -> Alphabet] : n \in 0..MaxLen}

InitDecode ==
    /\ Construct(EmptySchema, <<>>, "en")
    /\ genotype_data = <<>>
    /\ batch = NoBatch

NextDecode == \E str \in Strings : GetAlleleCount(str)

SpecDecode == InitDecode /\ [][NextDecode]_vars

(***************************************************************************)
(* SpecTraversal: one schema of a family of hierarchical and flat schemas  *)
(* (trait names may repeat), scored once against the caller's map.         *)
(***************************************************************************)
RiskUp(rsid, weight) == ("rsid" :> rsid) @@ ("weight" :> weight)
RiskDown(rsid, weight) ==
    RiskUp(rsid, weight) @@ ("effect" :> ("direction" :> "risk_down"))

TraitNames == {"T1", "T2"}
GroupNames == {"G1", "G2"}
LeafVariants == {<<RiskUp("rs1", 2)>>, <<RiskDown("rs1", 1)>>}

\* a trait definition with a name and variants: a subtrait or a direct trait
Leaves == {n @@ vs : n \in Field("name", TraitNames), vs \in Field("variants", LeafVariants)}

SubtraitLists == UNION {[1..k -> Leaves] : k \in 0..MaxSubtraits}

\* trait nodes: with variants, with subtraits, with both, with neither
Nodes ==
    Leaves
    \cup {n @@ sl @@ vs : n \in Field("name", TraitNames),
                          sl \in Field("subtraits", SubtraitLists),
                          vs \in Optional("variants", {<<RiskUp("rs1", 1)>>})}
    \cup Field("name", TraitNames)

\* the second node of a group
SecondNodes ==
    Leaves \cup {("name" :> "T2") @@ ("subtraits" :> <<("name" :> "T1")
                                       @@ ("variants" :> <<RiskUp("rs1", 1)>>)>>),
                 "name" :> "T1"}

NodeLists ==
    {<<>>} \cup {<<n>> : n \in Nodes} \cup {<<n, m>> : n \in Nodes, m \in SecondNodes}

Groups ==
    {g @@ ("traits" :> nl) : g \in Optional("name", GroupNames), nl \in NodeLists}
    \cup {"name" :> "G1"}

\* the second group of a taxonomy
SecondGroups ==
    {g @@ ("traits" :> <<leaf>>) : g \in {"name" :> "G2"}, leaf \in Leaves}
    \cup {("name" :> "G1") @@ ("traits" :> <<("name" :> "T1")
                                 @@ ("variants" :> <<RiskDown("rs1", 1)>>)>>),
          "traits" :> <<("name" :> "T2") @@ ("variants" :> <<RiskUp("rs1", 2)>>)>>}

GroupLists ==
    {<<>>} \cup {<<g>> : g \in Groups} \cup {<<g, h>> : g \in Groups, h \in SecondGroups}

TaxonomySchemas ==
    {"taxonomy" :> ("top_groups" :> gl) : gl \in GroupLists}
    \cup {"taxonomy" :> <<>>,
          ("taxonomy" :> ("top_groups" :> <<>>))
             @@ ("traits" :> ("T1" :> ("variants" :> <<RiskUp("rs1", 2)>>)))}

\* flat schemas: any traits under the keys T1, T2, T3
FlatDefs ==
    {Absent} \cup Field("variants", LeafVariants)
             \cup {("name" :> "T3") @@ vs : vs \in Field("variants", LeafVariants)}

TraitMaps == UNION {[keys -> FlatDefs] : keys \in SUBSET {"T1", "T2", "T3"}}

TraitsSchemas == Field("traits", TraitMaps) \cup {"version" :> "1.0"}

TraversalMaps == {"rs1" :> AA, "rs1" :> AG}

InitTraversal ==
    /\ \E sch \in TaxonomySchemas \cup TraitsSchemas : Construct(sch, <<>>, "en")
    /\ genotype_data \in TraversalMaps
    /\ batch = NoBatch

NextTraversal ==
    \/ ~scored /\ CalculateScore(genotype_data)
    \/ scored /\ GetHierarchy

SpecTraversal == InitTraversal /\ [][NextTraversal]_vars

(***************************************************************************)
(* SpecValidate: one flat schema whose variants carry any of the keys id,  *)
(* rsid, weight and effect; the schema is validated by a SchemaHandler and *)
(* scored by a RiskScorer against the caller's genotype map.               *)
(***************************************************************************)
IdVariants ==
    {i @@ r @@ w @@ e : i \in Optional("id", {"rs1"}),
                        r \in Optional("rsid", {"rs1"}),
                        w \in Optional("weight", {1, MaxWeight}),
                        e \in Optional("effect", {"direction" :> "neutral"})}

IdVariantLists ==
    {<<>>} \cup {<<v>> : v \in IdVariants} \cup {<<v, w>> : v \in IdVariants, w \in IdVariants}

IdTraitDefs ==
    {"domain" :> "Nutrition"} \cup {("variants" :> vs) : vs \in IdVariantLists}

SecondIdTraitDefs ==
    {"domain" :> "Nutrition",
     "variants" :> <<("id" :> "rs2") @@ ("weight" :> 1)>>,
     "variants" :> <<("id" :> "rs2") @@ ("rsid" :> "rs2") @@ ("weight" :> 1)>>,
     "variants" :> <<("rsid" :> "rs2")>>}

ValidateSchemas ==
    {"version" :> "1.0", "traits" :> <<>>}
    \cup {"traits" :> ("T1" :> td) : td \in IdTraitDefs}
    \cup {"traits" :> (("T1" :> td) @@ ("T2" :> td2)) : td \in IdTraitDefs,
                                                       td2 \in SecondIdTraitDefs}

ValidateMaps == {<<>>, "rs1" :> A_, ("rs1" :> AA) @@ ("rs2" :> AG)}

InitValidate ==
    /\ \E sch \in ValidateSchemas : Construct(sch, <<>>, "en")
    /\ genotype_data \in ValidateMaps
    /\ batch = NoBatch

NextValidate ==
    \/ ValidateSchema
    \/ CalculateScore(genotype_data)

SpecValidate == InitValidate /\ [][NextValidate]_vars

(***************************************************************************)
(* SpecReport: a scorer with the default thresholds scores a schema of     *)
(* traits with two variants (risk_up rs1, risk_down rs2) whose weights put *)
(* the percentage on and next to 33 and 66; the result mapping is then     *)
(* given to get_high_risk_traits and to create_comprehensive_json.         *)
(***************************************************************************)
ReportWeights == {<<1, 1>>, <<1, MaxWeight>>, <<33, 67>>, <<33, 17>>, <<295, 152>>}

ReportTrait(name, w) ==
    ("name" :> name) @@ ("variants" :> <<RiskUp("rs1", w[1]), RiskDown("rs2", w[2])>>)

ReportSchemas ==
    {"traits" :> (("T1" :> ReportTrait("T1", w1)) @@ ("T2" :> ReportTrait("T2", w2)) @@ inf) :
        w1 \in ReportWeights, w2 \in ReportWeights,
        inf \in Optional("Informational", {ReportTrait("Informational", <<1, 1>>)})}
    \cup
    {"taxonomy" :> ("top_groups" :>
         <<("name" :> "G1") @@ ("traits" :> <<ReportTrait("T1", w1)>>),
           ("name" :> "G2") @@ ("traits" :> <<ReportTrait("T2", w2)>>)>>) :
        w1 \in ReportWeights, w2 \in ReportWeights}

ReportMaps ==
    {r1 @@ r2 : r1 \in Optional("rs1", {AA, AG}), r2 \in Optional("rs2", {GG, AG})}

InitReport ==
    /\ \E sch \in ReportSchemas, lang \in {"en", "tr"} : Construct(sch, <<>>, lang)
    /\ genotype_data \in ReportMaps
    /\ batch = NoBatch

NextReport ==
    \/ ~scored /\ CalculateScore(genotype_data)
    \/ scored /\ GetHighRiskTraits
    \/ scored /\ CreateComprehensiveJson

SpecReport == InitReport /\ [][NextReport]_vars

(***************************************************************************)
(* SpecBatch: one run of main() over 1..MaxFiles input files of any kind,  *)
(* with a schema file that loads or does not.                              *)
(***************************************************************************)
InputFiles ==
    {[kind |-> k] : k \in {"missing", "no_genotypes", "unparsable", "unreadable", "unscorable"}}
    \cup {[kind |-> "ok", genotypes |-> g] : g \in {"rs1" :> AA, ("rs1" :> AG) @@ ("rs2" :> GG)}}

Batches == UNION {[1..n -> InputFiles] : n \in 1..MaxFiles}

BatchSchema ==
    "traits" :> ("T1" :> ReportTrait("T1", <<1, MaxWeight>>))

InitBatch ==
    /\ Construct(BatchSchema, <<>>, "en")
    /\ genotype_data = <<>>
    /\ \E files \in Batches, schema_loads \in BOOLEAN :
          batch = [files |-> files, schema_loads |-> schema_loads, next |-> 1,
                   called |-> {}, written |-> {}, status |-> "running"]

NextBatch == GenerateReportsForFile

SpecBatch == InitBatch /\ [][NextBatch]_vars

(***************************************************************************)
(* Spec: the life of one scorer.  It is constructed with any schema of a   *)
(* small family (flat or hierarchical), any thresholds argument and any    *)
(* language; then calculate_score, set_thresholds and set_language are     *)
(* called in any order, and the caller may delete entries of the mapping   *)
(* it was returned.                                                        *)
(***************************************************************************)
TraitOf(name, vs) == ("name" :> name) @@ ("domain" :> "Nutrition") @@ ("variants" :> vs)

FlatSchemas ==
    {"traits" :> <<>>,
     "traits" :> (("T1" :> TraitOf("T1", <<RiskUp("rs1", 2), RiskUp("rs2", 1)>>))
                  @@ ("T2" :> TraitOf("T2", <<RiskDown("rs2", MaxWeight)>>)))}

HierarchicalSchemas ==
    {"taxonomy" :> ("top_groups" :>
        <<("name" :> "G1") @@ ("traits" :>
             <<TraitOf("T1", <<RiskUp("rs1", 2)>>),
               ("name" :> "T2") @@ ("subtraits" :>
                   <<TraitOf("S1", <<RiskDown("rs1", 1)>>),
                     TraitOf("S2", <<RiskUp("rs2", MaxWeight)>>)>>)>>),
          ("traits" :> <<TraitOf("T1", <<RiskDown("rs2", 1)>>), "name" :> "T3">>)>>)}

Schemas == FlatSchemas \cup HierarchicalSchemas

CallerMaps ==
    {<<>>, "rs1" :> AA, ("rs1" :> AG) @@ ("rs2" :> GG), "rs2" :> A_, "rs2" :> GG,
     ("rs1" :> AA) @@ ("rs2" :> GG)}

Init ==
    /\ \E sch \in Schemas, th \in ThresholdArgs, lang \in Languages :
          Construct(sch, th, lang)
    /\ genotype_data = <<>>
    /\ batch = NoBatch

Next ==
    \/ \E g \in CallerMaps : CalculateScore(g)
    \/ \E lo \in ThresholdValues, hi \in ThresholdValues : SetThresholds(lo, hi)
    \/ \E lang \in Languages : SetLanguage(lang)
    \/ \E trait_name \in {"T1", "T2", "S1", "S2"} : ModifyResult(trait_name)

Spec == Init /\ [][Next]_vars

(***************************************************************************)
(* Claims                                                                  *)
(***************************************************************************)
LowLabels    == {"LOW", "DUSUK"}
MediumLabels == {"MEDIUM", "ORTA"}
HighLabels   == {"HIGH", "YUKSEK"}

\* C1: for thresholds [lo, hi] with lo < hi, _classify_risk(p) is LOW when
\* p < lo, MEDIUM when lo <= p < hi and HIGH when p >= hi; p == lo is MEDIUM
\* and p == hi is HIGH (the label is the English one unless language is tr).
ClassifyPartition ==
    (call.op = "classify_risk" /\ thresholds[1] < thresholds[2]) =>
        LET p  == call.arg
            lo == thresholds[1]
            hi == thresholds[2]
        IN  /\ p.num < lo * p.den => call.ret \in LowLabels
            /\ (p.num >= lo * p.den /\ p.num < hi * p.den) => call.ret \in MediumLabels
            /\ p.num >= hi * p.den => call.ret \in HighLabels
            /\ p.num = lo * p.den => call.ret \in MediumLabels
            /\ p.num = hi * p.den => call.ret \in HighLabels
            /\ language # "tr" => call.ret \in {"LOW", "MEDIUM", "HIGH"}

ClassifyAtLowerEdge ==
    /\ call.op = "classify_risk"
    /\ thresholds[1] < thresholds[2]
    /\ call.arg.num = thresholds[1] * call.arg.den
    /\ call.ret = "MEDIUM"

\* C8: diploid decoding depends only on the length and on whether the two
\* characters are equal: two equal characters give allele count 2, two
\* different characters give 1 in either order, any other length gives 0.
DecodeByShape ==
    call.op = "get_allele_count" =>
        LET str == call.arg
        IN  /\ (Len(str) = 2 /\ str[1] = str[2]) => call.ret = 2
            /\ (Len(str) = 2 /\ str[1] # str[2]) =>
                  /\ call.ret = 1
                  /\ get_allele_count(<<str[2], str[1]>>) = call.ret
            /\ Len(str) # 2 => call.ret = 0

DecodedThreeCharacters ==
    /\ call.op = "get_allele_count"
    /\ call.arg = het
    /\ call.ret = 0

(***************************************************************************)
(* Claims about one trait (SpecTrait): the trait T1 of the flat schema,    *)
(* its variants and its result, and the claims' own reading of a variant.  *)
(***************************************************************************)
TheTrait    == schema["traits"]["T1"]
TheVariants == IF "variants" \in DOMAIN TheTrait THEN TheTrait["variants"] ELSE <<>>
TheResult   == results["T1"]

SaidDirection(v) ==
    IF "effect" \in DOMAIN v /\ "direction" \in DOMAIN v["effect"]
    THEN v["effect"]["direction"] ELSE "risk_up"
SaidNeutral(v)  == SaidDirection(v) = "neutral"
SaidPresent(v)  == "rsid" \in DOMAIN v /\ v["rsid"] \in DOMAIN genotype_data
SaidMissing(v)  == ~SaidPresent(v) \/ Len(genotype_data[v["rsid"]]) # 2
SaidPointMap(v) == "scoring" \in DOMAIN v /\ "genotype_points" \in DOMAIN v["scoring"]
SaidScored(v)   == ~SaidNeutral(v) /\ ~SaidMissing(v)
SaidAlleles(v)  ==
    IF genotype_data[v["rsid"]][1] = genotype_data[v["rsid"]][2] THEN 2 ELSE 1
NotNeutral(v)   == ~SaidNeutral(v)
NotMissing(v)   == ~SaidMissing(v)

\* the result of T1 had its variants been vs
ResultWith(vs) ==
    calculate_trait_score("T1", ("variants" :> vs) @@ TheTrait,
                          genotype_data, thresholds, language)

SameNumbers(r1, r2) ==
    /\ r1.score = r2.score
    /\ r1.max_possible_score = r2.max_possible_score
    /\ r1.percentage = r2.percentage
    /\ r1.normalized_score = r2.normalized_score
    /\ r1.classification = r2.classification

\* C2: every trait result has 0 <= percentage <= 100.
PercentageInRange ==
    scored => \A t \in DOMAIN results :
                 0 <= results[t].percentage /\ results[t].percentage <= 100 * 100

\* C3 (as stated): percentage == 0 if and only if every variant of the trait
\* was missing or neutral.
ZeroIffNoData ==
    scored => (TheResult.percentage = 0
                  <=> \A i \in 1..Len(TheVariants) :
                         SaidNeutral(TheVariants[i]) \/ SaidMissing(TheVariants[i]))

\* C3 (amended): if every variant of the trait was missing or neutral then
\* percentage == 0.
ZeroWhenNoData ==
    scored => ((\A i \in 1..Len(TheVariants) :
                   SaidNeutral(TheVariants[i]) \/ SaidMissing(TheVariants[i]))
               => TheResult.percentage = 0)

MalformedOnlyScoredZero ==
    /\ scored
    /\ Len(TheVariants) = 2
    /\ \A i \in 1..2 : /\ ~SaidNeutral(TheVariants[i])
                       /\ SaidPresent(TheVariants[i])
                       /\ SaidMissing(TheVariants[i])
    /\ TheResult.percentage = 0

\* C4: when at least one variant contributed, 0 <= score <= max_possible_score.
ScoreWithinMax ==
    (scored /\ \E i \in 1..Len(TheVariants) : SaidScored(TheVariants[i])) =>
        /\ 0 <= TheResult.score
        /\ TheResult.score <= TheResult.max_possible_score

\* C5: a neutral variant adds 0 to score and to max_possible_score whatever
\* its genotype, weight or scoring override; with or without the neutral
\* variants the trait has the same score, max_possible_score, percentage and
\* classification, and each neutral variant adds one 'not scored' detail.
NeutralIsFrame ==
    scored =>
        LET kept     == SelectSeq(TheVariants, NotNeutral)
            neutrals == {i \in 1..Len(TheVariants) : SaidNeutral(TheVariants[i])}
        IN  /\ SameNumbers(TheResult, ResultWith(kept))
            /\ kept = <<>> => TheResult.score = 0 /\ TheResult.max_possible_score = 0
            /\ Len(TheResult.details) = Len(ResultWith(kept).details) + Cardinality(neutrals)
            /\ Cardinality({j \in 1..Len(TheResult.details) :
                              /\ "text" \in DOMAIN TheResult.details[j]
                              /\ TheResult.details[j]["text"]
                                    = "Neutral (phenotypic only, not scored)"})
                  = Cardinality(neutrals)

NeutralBesideScored ==
    /\ scored
    /\ Len(TheVariants) = 2
    /\ SaidNeutral(TheVariants[1]) /\ ~SaidMissing(TheVariants[1])
    /\ SaidPointMap(TheVariants[1]) /\ "weight" \in DOMAIN TheVariants[1]
    /\ SaidScored(TheVariants[2])
    /\ TheResult.score > 0
    /\ Len(TheResult.details) = 2

\* C6: a variant whose rsid is absent from the genotype map, or whose raw
\* value is not exactly two characters long, adds 0 to score and to
\* max_possible_score in legacy and in point-map mode; the trait has the
\* same numbers as the trait with only the variants that have usable data.
MissingIsExcluded ==
    scored =>
        LET kept == SelectSeq(TheVariants, NotMissing)
        IN  /\ SameNumbers(TheResult, ResultWith(kept))
            /\ kept = <<>> => /\ TheResult.score = 0
                              /\ TheResult.max_possible_score = 0
                              /\ TheResult.percentage = 0

PresentBesideMissing ==
    /\ scored
    /\ Len(TheVariants) = 2
    /\ SaidScored(TheVariants[1]) /\ ~SaidPointMap(TheVariants[1])
    /\ ~SaidNeutral(TheVariants[2]) /\ SaidPointMap(TheVariants[2])
    /\ SaidPresent(TheVariants[2]) /\ SaidMissing(TheVariants[2])
    /\ TheResult.max_possible_score > 0
    /\ TheResult.percentage = ResultWith(<<TheVariants[1]>>).percentage
    /\ TheResult.percentage > 0

\* C7: with a zygosity-tag encoded genotype map, a legacy-mode variant is
\* scored with allele count 0 for "wt", 1 for "het" and 2 for "hom"; a "wt"
\* variant adds 2 x weight to max_possible_score and "het" and "hom" are not
\* treated as missing.
ZygosityTags == {wt, het, hom}
TagAlleles(tag) == CASE tag = wt -> 0 [] tag = het -> 1 [] tag = hom -> 2
SaidWeight(v) == IF "weight" \in DOMAIN v THEN v["weight"] ELSE 1

ZygosityTagsScored ==
    (/\ scored
     /\ Len(TheVariants) = 1
     /\ ~SaidNeutral(TheVariants[1]) /\ ~SaidPointMap(TheVariants[1])
     /\ SaidPresent(TheVariants[1])
     /\ \A r \in DOMAIN genotype_data : genotype_data[r] \in ZygosityTags)
    => /\ TheResult.max_possible_score = 2 * SaidWeight(TheVariants[1])
       /\ Len(TheResult.details) = 1
       /\ TheResult.details[1].allele_count
             = TagAlleles(genotype_data[TheVariants[1]["rsid"]])

\* C9: in legacy mode a usable genotype of allele count c under weight w
\* (default 1) adds c x w to score for risk_up and contextual and
\* (2 - c) x w for risk_down; risk_up, w = 2, homozygous is 4 of 4, 100%,
\* HIGH and risk_down, w = 2, heterozygous is 2 of 4, 50%, MEDIUM.
SaidLegacyPoints(v) ==
    IF SaidNeutral(v) \/ SaidMissing(v) THEN 0
    ELSE IF SaidDirection(v) = "risk_down" THEN (2 - SaidAlleles(v)) * SaidWeight(v)
    ELSE SaidAlleles(v) * SaidWeight(v)

RECURSIVE SumOf(_, _)
SumOf(Term(_), vs) == IF vs = <<>> THEN 0 ELSE Term(Head(vs)) + SumOf(Term, Tail(vs))

LegacyContribution ==
    (/\ scored
     /\ \A i \in 1..Len(TheVariants) :
           /\ ~SaidPointMap(TheVariants[i])
           /\ SaidDirection(TheVariants[i])
                 \in {"risk_up", "risk_down", "contextual", "neutral"})
    => /\ TheResult.score = SumOf(SaidLegacyPoints, TheVariants)
       /\ (/\ TheVariants = <<[rsid |-> "rs1", weight |-> 2,
                               effect |-> [direction |-> "risk_up"]]>>
           /\ "rs1" \in DOMAIN genotype_data /\ genotype_data["rs1"] = AA)
          => /\ TheResult.score = 4 /\ TheResult.max_possible_score = 4
             /\ TheResult.percentage = 100 * 100
             /\ TheResult.classification = "HIGH"
       /\ (/\ TheVariants = <<[rsid |-> "rs1", weight |-> 2,
                               effect |-> [direction |-> "risk_down"]]>>
           /\ "rs1" \in DOMAIN genotype_data /\ genotype_data["rs1"] = AG)
          => /\ TheResult.score = 2 /\ TheResult.max_possible_score = 4
             /\ TheResult.percentage = 50 * 100
             /\ TheResult.classification = "MEDIUM"

RiskDownHeterozygous ==
    /\ scored
    /\ TheVariants = <<[rsid |-> "rs1", weight |-> 2, effect |-> [direction |-> "risk_down"]]>>
    /\ "rs1" \in DOMAIN genotype_data /\ genotype_data["rs1"] = AG
    /\ TheResult.score = 2
    /\ TheResult.classification = "MEDIUM"

\* C10: in point-map mode the points are the map's value under the string
\* key of the derived allele count, or 0 when that key is absent, and the
\* weight of both the contribution and max-possible is scoring.default_weight
\* (1 when absent), never the variant's top-level weight.
SaidMapPoints(v) ==
    LET pm  == v["scoring"]["genotype_points"]
        key == IF SaidAlleles(v) = 2 THEN "2" ELSE "1"
    IN  IF key \in DOMAIN pm THEN pm[key] ELSE 0
SaidMapWeight(v) ==
    IF "default_weight" \in DOMAIN v["scoring"] THEN v["scoring"]["default_weight"] ELSE 1

PointMapLookup ==
    (/\ scored
     /\ Len(TheVariants) = 1
     /\ SaidPointMap(TheVariants[1]) /\ SaidScored(TheVariants[1]))
    => LET v == TheVariants[1]
       IN  /\ TheResult.max_possible_score = 2 * SaidMapWeight(v)
           /\ Len(TheResult.details) = 1
           /\ TheResult.details[1].points = SaidMapPoints(v)
           /\ TheResult.details[1].weight = SaidMapWeight(v)
           /\ SaidDirection(v) \in {"risk_up", "contextual"}
                 => TheResult.score = SaidMapPoints(v) * SaidMapWeight(v)
           /\ (/\ v["scoring"] = [genotype_points |-> ("0" :> 0) @@ ("1" :> 1) @@ ("2" :> 3),
                                  default_weight |-> 1]
               /\ SaidDirection(v) = "risk_up" /\ SaidAlleles(v) = 1)
              => /\ TheResult.score = 1 /\ TheResult.max_possible_score = 2
                 /\ TheResult.percentage = 50 * 100
                 /\ TheResult.classification = "MEDIUM"

AbsentKeyAndOverriddenWeight ==
    /\ scored
    /\ Len(TheVariants) = 1
    /\ SaidPointMap(TheVariants[1]) /\ SaidScored(TheVariants[1])
    /\ "weight" \in DOMAIN TheVariants[1] /\ TheVariants[1]["weight"] = 2
    /\ "default_weight" \notin DOMAIN TheVariants[1]["scoring"]
    /\ DOMAIN TheVariants[1]["scoring"]["genotype_points"] = {"0", "2"}
    /\ SaidAlleles(TheVariants[1]) = 1
    /\ TheResult.score = 0
    /\ TheResult.max_possible_score = 2

\* C11: in point-map mode with looked-up points p and weight w the
\* contribution is p x w for risk_up and contextual; for risk_down it is
\* (2 - p) x w when p is 0, 1 or 2 and 0 for every other p.
PointMapContribution ==
    (/\ scored
     /\ Len(TheVariants) = 1
     /\ SaidPointMap(TheVariants[1]) /\ SaidScored(TheVariants[1]))
    => LET v == TheVariants[1]
           p == SaidMapPoints(v)
           w == SaidMapWeight(v)
       IN  /\ SaidDirection(v) \in {"risk_up", "contextual"} => TheResult.score = p * w
           /\ (SaidDirection(v) = "risk_down" /\ p \in {0, 1, 2})
                 => TheResult.score = (2 - p) * w
           /\ (SaidDirection(v) = "risk_down" /\ p \notin {0, 1, 2})
                 => TheResult.score = 0

RiskDownPointsClamped ==
    /\ scored
    /\ Len(TheVariants) = 1
    /\ SaidPointMap(TheVariants[1]) /\ SaidScored(TheVariants[1])
    /\ SaidDirection(TheVariants[1]) = "risk_down"
    /\ SaidMapPoints(TheVariants[1]) = 3
    /\ SaidMapWeight(TheVariants[1]) = 2
    /\ TheResult.score = 0
    /\ TheResult.max_possible_score = 4

\* C12: every variant with a usable genotype and a direction other than
\* neutral adds exactly 2 x its effective weight to max_possible_score, in
\* legacy and in point-map mode and for every direction string; so
\* max_possible_score is the sum of 2 x weight over those variants.
SaidEffectiveWeight(v) == IF SaidPointMap(v) THEN SaidMapWeight(v) ELSE SaidWeight(v)
SaidMaximum(v) == IF SaidScored(v) THEN 2 * SaidEffectiveWeight(v) ELSE 0

MaxIsTwiceWeights ==
    scored => TheResult.max_possible_score = SumOf(SaidMaximum, TheVariants)

UnrecognisedBesidePointMap ==
    /\ scored
    /\ Len(TheVariants) = 2
    /\ SaidScored(TheVariants[1]) /\ SaidScored(TheVariants[2])
    /\ SaidDirection(TheVariants[1]) = "protective" /\ ~SaidPointMap(TheVariants[1])
    /\ SaidWeight(TheVariants[1]) = 2
    /\ SaidDirection(TheVariants[2]) = "risk_down" /\ SaidPointMap(TheVariants[2])
    /\ TheResult.max_possible_score = 6

\* C13: percentage is 0 when max_possible_score is 0 and otherwise
\* 100 x score / max_possible_score rounded to 2 decimals (normalized_score:
\* to 1 decimal); a trait whose only variant is missing from the genotype
\* map has score 0, max_possible_score 0, percentage 0 and is LOW under the
\* default thresholds.
\* (n is x / y rounded to an integer when it is within one half of x / y)
IsRounded(n, x, y) == 2 * (n * y - x) <= y /\ 2 * (x - n * y) <= y

PercentageIsRatio ==
    scored =>
        /\ TheResult.max_possible_score = 0 =>
              TheResult.percentage = 0 /\ TheResult.normalized_score = 0
        /\ TheResult.max_possible_score > 0 =>
              /\ IsRounded(TheResult.percentage, 100 * 100 * TheResult.score,
                           TheResult.max_possible_score)
              /\ IsRounded(TheResult.normalized_score, 100 * 10 * TheResult.score,
                           TheResult.max_possible_score)
        /\ (/\ Len(TheVariants) = 1
            /\ "rsid" \in DOMAIN TheVariants[1]
            /\ TheVariants[1]["rsid"] \notin DOMAIN genotype_data
            /\ thresholds = <<33, 66>>)
           => /\ TheResult.score = 0 /\ TheResult.max_possible_score = 0
              /\ TheResult.percentage = 0
              /\ TheResult.classification = "LOW"

OnlyVariantAbsent ==
    /\ scored
    /\ Len(TheVariants) = 1
    /\ ~SaidNeutral(TheVariants[1])
    /\ "rsid" \in DOMAIN TheVariants[1]
    /\ TheVariants[1]["rsid"] \notin DOMAIN genotype_data
    /\ DOMAIN genotype_data # {}
    /\ TheResult.percentage = 0
    /\ TheResult.classification = "LOW"

(***************************************************************************)
(* Claims about the traversal (SpecTraversal): the sequence of traits a    *)
(* hierarchical schema emits, as the claims describe it.                   *)
(***************************************************************************)
TopGroups ==
    IF "taxonomy" \in DOMAIN schema /\ "top_groups" \in DOMAIN schema["taxonomy"]
    THEN schema["taxonomy"]["top_groups"] ELSE <<>>

SaidGroupName(group) == IF "name" \in DOMAIN group THEN group["name"] ELSE "Unknown"

\* what one trait node emits: its subtraits if it has the key, else itself
\* if it has variants, else nothing
NodeEmits(node, group) ==
    IF "subtraits" \in DOMAIN node
    THEN [i \in 1..Len(node["subtraits"]) |->
            [trait |-> node["subtraits"][i], group |-> SaidGroupName(group)]]
    ELSE IF "variants" \in DOMAIN node
    THEN <<[trait |-> node, group |-> SaidGroupName(group)]>>
    ELSE <<>>

RECURSIVE NodesEmit(_, _)
NodesEmit(nodes, group) ==
    IF nodes = <<>> THEN <<>>
    ELSE NodeEmits(Head(nodes), group) \o NodesEmit(Tail(nodes), group)

RECURSIVE GroupsEmit(_)
GroupsEmit(groups) ==
    IF groups = <<>> THEN <<>>
    ELSE NodesEmit(IF "traits" \in DOMAIN Head(groups) THEN Head(groups)["traits"] ELSE <<>>,
                   Head(groups))
         \o GroupsEmit(Tail(groups))

Emitted == GroupsEmit(TopGroups)

\* the result entry of an emitted trait
EntryOf(e) ==
    ("group_name" :> e.group)
       @@ calculate_trait_score(e.trait["name"], e.trait, genotype_data, thresholds, language)

\* C14: for a hierarchical schema every trait node of every group is visited,
\* subtraits first: a node with subtraits yields one result per subtrait
\* (keyed by the subtrait's name, group_name the enclosing group's name) and
\* none for the node itself even if it has variants; a node with variants
\* only yields one result for the node; a node with neither yields none.
SubtraitsFirst ==
    (scored /\ "taxonomy" \in DOMAIN schema) =>
        /\ DOMAIN results = {Emitted[i].trait["name"] : i \in 1..Len(Emitted)}
        /\ \A n \in DOMAIN results :
              \E i \in 1..Len(Emitted) :
                 Emitted[i].trait["name"] = n /\ results[n] = EntryOf(Emitted[i])

NodeWithBothYieldsSubtraits ==
    /\ scored
    /\ Len(TopGroups) = 1
    /\ "name" \in DOMAIN TopGroups[1] /\ TopGroups[1]["name"] = "G2"
    /\ Len(TopGroups[1]["traits"]) = 1
    /\ LET node == TopGroups[1]["traits"][1]
       IN  /\ node["name"] = "T1"
           /\ "variants" \in DOMAIN node /\ "subtraits" \in DOMAIN node
           /\ Len(node["subtraits"]) = 1
           /\ node["subtraits"][1]["name"] = "T2"
    /\ DOMAIN results = {"T2"}
    /\ results["T2"]["group_name"] = "G2"

\* C15: for a flat schema (no taxonomy key) there is exactly one result
\* entry per top-level trait, keyed by the trait name, none with a
\* group_name; the keys of the result are the keys of schema['traits'].
FlatOnePerTrait ==
    (scored /\ "taxonomy" \notin DOMAIN schema) =>
        LET traits == IF "traits" \in DOMAIN schema THEN schema["traits"] ELSE <<>>
        IN  /\ DOMAIN results = DOMAIN traits
            /\ \A n \in DOMAIN results :
                  /\ "group_name" \notin DOMAIN results[n]
                  /\ results[n]["name"] = n
                  /\ results[n] = calculate_trait_score(n, traits[n], genotype_data,
                                                        thresholds, language)

FlatThreeTraits ==
    /\ scored
    /\ "taxonomy" \notin DOMAIN schema
    /\ "traits" \in DOMAIN schema
    /\ DOMAIN schema["traits"] = {"T1", "T2", "T3"}
    /\ DOMAIN results = {"T1", "T2", "T3"}
    /\ results["T1"]["percentage"] = 100 * 100
    /\ results["T2"]["percentage"] = 0
    /\ results["T2"]["max_possible_score"] = 2

\* C16: when two emitted traits of a hierarchical schema share a name, in
\* one group or across groups, the result holds one entry under that name:
\* that of the trait declared later (its group_name, score and details).
LastWriteWins ==
    (scored /\ "taxonomy" \in DOMAIN schema) =>
        \A i \in 1..Len(Emitted) :
           (\A j \in (i + 1)..Len(Emitted) :
               Emitted[j].trait["name"] # Emitted[i].trait["name"])
           => /\ Emitted[i].trait["name"] \in DOMAIN results
              /\ results[Emitted[i].trait["name"]] = EntryOf(Emitted[i])

DuplicateAcrossGroups ==
    /\ scored
    /\ Len(TopGroups) = 2
    /\ Len(Emitted) = 2
    /\ Emitted[1].trait["name"] = "T1" /\ Emitted[2].trait["name"] = "T1"
    /\ Emitted[1].group = "G1" /\ Emitted[2].group = "G2"
    /\ EntryOf(Emitted[1]).score # EntryOf(Emitted[2]).score
    /\ results["T1"]["group_name"] = "G2"
    /\ results["T1"]["score"] = EntryOf(Emitted[2]).score

(***************************************************************************)
(* Claims about the life of a scorer (Spec)                                *)
(***************************************************************************)
\* the risk level of a result entry, from its score and maximum, under the
\* thresholds lo, hi: below lo is low, else below hi is medium, else high
SaidLevel(entry, th) ==
    LET p == IF entry["max_possible_score"] > 0
             THEN [num |-> 100 * entry["score"], den |-> entry["max_possible_score"]]
             ELSE [num |-> 0, den |-> 1]
    IN  IF p.num < th[1] * p.den THEN "low"
        ELSE IF p.num < th[2] * p.den THEN "medium"
        ELSE "high"

EnglishLabel(level) ==
    IF level = "low" THEN "LOW" ELSE IF level = "medium" THEN "MEDIUM" ELSE "HIGH"

TurkishLabel(level) ==
    IF level = "low" THEN "DUSUK" ELSE IF level = "medium" THEN "ORTA" ELSE "YUKSEK"

SaidLabel(level, lang) == IF lang = "tr" THEN TurkishLabel(level) ELSE EnglishLabel(level)

IsHalf(entry) ==
    entry["max_possible_score"] > 0 /\ 2 * entry["score"] = entry["max_possible_score"]

UnknownLanguageIsEnglish ==
    [][(call'.op = "calculate_score" /\ language \notin {"en", "tr"}) =>
          \A n \in DOMAIN results' :
             results'[n]["classification"] = EnglishLabel(SaidLevel(results'[n], thresholds))]_vars

GermanScorerSaysMedium ==
    /\ language = "de"
    /\ call.op = "calculate_score"
    /\ thresholds = <<33, 66>>
    /\ \E n \in DOMAIN results : IsHalf(results[n]) /\ results[n]["classification"] = "MEDIUM"
    /\ \E n \in DOMAIN results : results[n]["classification"] = "HIGH"

\* C19: the setters take effect on later calls only: after
\* set_thresholds(lo, hi) thresholds = [lo, hi]; neither setter changes a
\* result mapping already returned; every classification made by a later
\* calculate_score uses the thresholds and the language then in force.
SettersTakeEffectLater ==
    [][/\ call'.op = "set_thresholds" =>
             thresholds' = call'.arg /\ results' = results /\ language' = language
       /\ call'.op = "set_language" =>
             (/\ results' = results /\ thresholds' = thresholds
              /\ call'.arg \in {"en", "tr"} => language' = call'.arg)
       /\ call'.op = "calculate_score" =>
             \A n \in DOMAIN results' :
                results'[n]["classification"]
                   = SaidLabel(SaidLevel(results'[n], thresholds), language)]_vars

EarlierResultKeepsHigh ==
    /\ call.op = "set_thresholds"
    /\ call.arg = <<25, 75>>
    /\ thresholds = <<25, 75>>
    /\ language = "en"
    /\ \E n \in DOMAIN results : IsHalf(results[n]) /\ results[n]["classification"] = "HIGH"

\* C20: in every reachable state of a scorer thresholds is an ordered pair
\* [low_bound, high_bound] with low_bound < high_bound.
ThresholdsOrdered == Len(thresholds) = 2 /\ thresholds[1] < thresholds[2]

(***************************************************************************)
(* Claims about error handling inside one trait (SpecTrait)                *)
(***************************************************************************)
\* C23: every variant whose genotype is missing or malformed is recorded in
\* the trait's details with a string noting that it is missing, in legacy
\* mode as well as in point-map mode, so that details has one entry per
\* variant of the trait.
MissingIsLogged ==
    scored =>
       /\ Len(TheResult.details) = Len(TheVariants)
       /\ \A i \in 1..Len(TheVariants) :
             (NotNeutral(TheVariants[i]) /\ SaidMissing(TheVariants[i])) =>
                /\ i <= Len(TheResult.details)
                /\ "text" \in DOMAIN TheResult.details[i]
                /\ TheResult.details[i].text = "Missing"

SaidKnownDirections == {"risk_up", "risk_down", "contextual", "neutral"}

SaidUnknownDirection(v) == SaidDirection(v) \notin SaidKnownDirections

Without(vs, i) == SubSeq(vs, 1, i - 1) \o SubSeq(vs, i + 1, Len(vs))

\* C24: a variant whose effect direction is outside {risk_up, risk_down,
\* contextual, neutral} and whose genotype is usable contributes 0 to the
\* trait's score, in legacy and in point-map mode: the score is that of the
\* trait without the variant, and the trait still gets its result entry.
UnknownDirectionScoresZero ==
    scored =>
       \A i \in 1..Len(TheVariants) :
          (SaidUnknownDirection(TheVariants[i]) /\ NotMissing(TheVariants[i])) =>
             /\ "T1" \in DOMAIN results
             /\ TheResult.score = ResultWith(Without(TheVariants, i)).score
             /\ \E k \in 1..Len(TheResult.details) :
                   /\ "trait_score" \in DOMAIN TheResult.details[k]
                   /\ TheResult.details[k].direction_label = Upper(SaidDirection(TheVariants[i]))
                   /\ TheResult.details[k].trait_score = 0

ProtectiveBesideRiskUp ==
    /\ scored
    /\ Len(TheVariants) = 2
    /\ SaidDirection(TheVariants[1]) = "protective"
    /\ ~SaidPointMap(TheVariants[1]) /\ NotMissing(TheVariants[1])
    /\ SaidAlleles(TheVariants[1]) = 2
    /\ SaidDirection(TheVariants[2]) = "risk_up"
    /\ ~SaidPointMap(TheVariants[2]) /\ NotMissing(TheVariants[2])
    /\ TheVariants[1]["rsid"] # TheVariants[2]["rsid"]
    /\ TheResult.score = 2
    /\ TheResult.max_possible_score > 4

(***************************************************************************)
(* Claims about the SchemaHandler                                          *)
(***************************************************************************)
SaidTraits == IF "traits" \in DOMAIN schema THEN schema["traits"] ELSE <<>>

SaidVariantsOf(n) ==
    IF "variants" \in DOMAIN SaidTraits[n] THEN SaidTraits[n]["variants"] ELSE <<>>

\* C22: validate_schema returns True exactly when the schema has a
\* top-level 'traits' key, every trait has a 'variants' key and every
\* variant has both an 'id' and a 'weight' key; False in every other case.
ValidateExactly ==
    call.op = "validate_schema" =>
       (call.ret = TRUE <=>
           /\ "traits" \in DOMAIN schema
           /\ \A n \in DOMAIN schema["traits"] :
                 /\ "variants" \in DOMAIN schema["traits"][n]
                 /\ \A i \in 1..Len(schema["traits"][n]["variants"]) :
                       /\ "id" \in DOMAIN schema["traits"][n]["variants"][i]
                       /\ "weight" \in DOMAIN schema["traits"][n]["variants"][i])

SecondTraitLacksVariants ==
    /\ call.op = "validate_schema"
    /\ call.ret = FALSE
    /\ "traits" \in DOMAIN schema
    /\ DOMAIN schema["traits"] = {"T1", "T2"}
    /\ "variants" \in DOMAIN schema["traits"]["T1"]
    /\ Len(schema["traits"]["T1"]["variants"]) = 2
    /\ \A i \in 1..2 : {"id", "weight"} \subseteq DOMAIN schema["traits"]["T1"]["variants"][i]
    /\ "variants" \notin DOMAIN schema["traits"]["T2"]

\* the genotype map holds a valid two-character value under the variant's id
SaidTypedUnderId(v) ==
    /\ "id" \in DOMAIN v
    /\ v["id"] \in DOMAIN genotype_data
    /\ Len(genotype_data[v["id"]]) = 2

\* C30: validation and scoring agree on the variant identifier: for a flat
\* schema that validate_schema accepts and a genotype map with a valid
\* two-character value under every variant's id, every trait with a
\* non-neutral variant gets a max_possible_score greater than 0.
ValidatedIdIsScored ==
    (/\ scored
     /\ call.op = "validate_schema" /\ call.ret = TRUE
     /\ "taxonomy" \notin DOMAIN schema
     /\ \A n \in DOMAIN SaidTraits : \A i \in 1..Len(SaidVariantsOf(n)) :
           SaidTypedUnderId(SaidVariantsOf(n)[i]))
    => \A n \in DOMAIN SaidTraits :
          (\E i \in 1..Len(SaidVariantsOf(n)) : NotNeutral(SaidVariantsOf(n)[i]))
             => results[n]["max_possible_score"] > 0

\* C29: for a hierarchical schema get_hierarchy and calculate_score agree on
\* group membership: every result entry with group_name G has its trait
\* name listed in get_hierarchy()[G].
HierarchyListsResults ==
    (scored /\ call.op = "get_hierarchy" /\ "taxonomy" \in DOMAIN schema) =>
       \A n \in DOMAIN results :
          LET G == <<results[n]["group_name"]>>
          IN  /\ G \in DOMAIN call.ret
              /\ \E k \in 1..Len(call.ret[G]) : call.ret[G][k] = <<n>>

(***************************************************************************)
(* Claims about the consumers of a result mapping (SpecReport)             *)
(***************************************************************************)
\* C27: for results produced under the default thresholds [33, 66],
\* get_high_risk_traits(results) with its default threshold returns exactly
\* the traits whose classification is the HIGH label.
HighFilterIsHighLabel ==
    (call.op = "get_high_risk_traits" /\ thresholds = DefaultThresholds) =>
       /\ DOMAIN call.ret = {n \in DOMAIN results : results[n]["classification"] \in HighLabels}
       /\ \A n \in DOMAIN call.ret : call.ret[n] = results[n]

\* C28: the report summary agrees with the scorer's classification under
\* the default thresholds: low_risk_count, medium_risk_count and
\* high_risk_count are the numbers of reported traits classified LOW,
\* MEDIUM and HIGH, and the three counts sum to total_traits.
SaidReported == DOMAIN results \ {"Informational", "Bilgilendirici"}

SummaryCountsLabels ==
    (call.op = "create_comprehensive_json" /\ thresholds = DefaultThresholds) =>
       LET summary == call.ret.summary
           Count(labels) ==
               Cardinality({n \in SaidReported : results[n]["classification"] \in labels})
       IN  /\ summary.total_traits = Cardinality(SaidReported)
           /\ summary.low_risk_count = Count(LowLabels)
           /\ summary.medium_risk_count = Count(MediumLabels)
           /\ summary.high_risk_count = Count(HighLabels)
           /\ summary.low_risk_count + summary.medium_risk_count + summary.high_risk_count
                 = summary.total_traits

(***************************************************************************)
(* Claims that compare two calls of calculate_score (Spec)                 *)
(***************************************************************************)
\* the definition that produces the result entry of trait n: the top-level
\* trait of a flat schema, the last emitted trait of that name otherwise
SaidDefinition(n) ==
    IF "taxonomy" \in DOMAIN schema
    THEN LET last == CHOOSE i \in 1..Len(Emitted) :
                        /\ Emitted[i].trait["name"] = n
                        /\ \A j \in (i + 1)..Len(Emitted) : Emitted[j].trait["name"] # n
         IN  Emitted[last].trait
    ELSE SaidTraits[n]

SaidRsids(n) ==
    LET vs == IF "variants" \in DOMAIN SaidDefinition(n) THEN SaidDefinition(n)["variants"]
              ELSE <<>>
    IN  {vs[i]["rsid"] : i \in {k \in 1..Len(vs) : "rsid" \in DOMAIN vs[k]}}

SaidSameOn(rsids, g1, g2) == \A r \in rsids : GetOpt(g1, r) = GetOpt(g2, r)

\* C25: trait results are independent of unrelated genotype entries: two
\* calls of calculate_score whose genotype maps give the same value (or both
\* none) for every rsid listed in trait T's variants return the same result
\* entry for T, whatever the other entries of the maps are.
UnrelatedEntriesIgnored ==
    (call.op = "calculate_score" /\ call.follows.op = "calculate_score") =>
       \A n \in DOMAIN results :
          SaidSameOn(SaidRsids(n), call.arg, call.follows.arg) =>
             /\ n \in DOMAIN call.follows.ret
             /\ results[n] = call.follows.ret[n]

OtherEntryDropped ==
    /\ call.op = "calculate_score" /\ call.follows.op = "calculate_score"
    /\ call.follows.arg = ("rs1" :> AG) @@ ("rs2" :> GG)
    /\ call.arg = "rs2" :> GG
    /\ "taxonomy" \notin DOMAIN schema
    /\ "T2" \in DOMAIN results
    /\ SaidRsids("T2") = {"rs2"}
    /\ results["T2"]["max_possible_score"] > 0
    /\ results["T1"] # call.follows.ret["T1"]

BatchFailuresAreLocal ==
    (batch.status \in {"returned", "raised"}) =>
       \A i \in 1..Len(batch.files) :
          /\ i \in batch.called
          /\ (batch.schema_loads /\ batch.files[i].kind = "ok") => i \in batch.written

====
